---- MODULE Spec2Model ----
(***************************************************************************)
(* Model of the gallery server (Go backend: safePath, handleList,          *)
(* handleThumb, pregenThumb, generateThumb and the codec pipeline).        *)
(*                                                                         *)
(* A relative path of the media tree is a record [dir, base, ext]: the     *)
(* directory, the file name without its extension, and the extension as    *)
(* spelled on disk.  The goroutines in flight (one per thumbnail request,  *)
(* one per pregenThumb spawned by a listing) are a bag of records holding  *)
(* each goroutine's position and locals.                                   *)
(*                                                                         *)
(* A goroutine's step starts at a statement that blocks or that reads or   *)
(* writes what other goroutines can see without the lock (the thumbnail    *)
(* file): the os.Stat of the fast paths, the send on workerSem, Lock, the  *)
(* creation of the output file, the end of the encode, ServeFile.  The     *)
(* statements that follow up to the next such point belong to the same     *)
(* step: LoadOrStore after the send, the re-check after Lock (the file is  *)
(* written only under the lock), the deferred Unlock and <-workerSem       *)
(* after the last statement of the pipeline.  pc is the point the          *)
(* goroutine is at: "pregen" line 270, "sem" line 273, "lock" line 286,    *)
(* "gen" line 293, "encode" line 349 / 368, "serve" line 237.              *)
(***************************************************************************)
EXTENDS Integers, Sequences, FiniteSets, Bags, TLC

VARIABLES tasks, thumbs, thumbLocks, locked, workerSem, runs, fails, http, img,
          tree, app

vars ==
  <<tasks, thumbs, thumbLocks, locked, workerSem, runs, fails, http, img, tree,
    app>>

(***************************************************************************)
(* Program constants.                                                      *)
(***************************************************************************)
thumbWidth == 300
maxWorkers == 4
imageExts == {".jpg", ".jpeg", ".png", ".gif", ".webp"}
videoExts == {".mp4", ".mov", ".mkv", ".webm"}

(***************************************************************************)
(* Bounds of the model.                                                    *)
(***************************************************************************)
\* background goroutines in flight at once
MaxBg == 5
\* thumbnail requests in flight at once
MaxFg == 1
\* pipeline failures injected in one behaviour
MaxFails == 1

(***************************************************************************)
(* strings.ToLower / strings.ToUpper on the extension spellings in use.    *)
(***************************************************************************)
ToLower(e) ==
  CASE e \in {".JPG", ".Jpg"} -> ".jpg"
    [] e = ".PNG" -> ".png"
    [] e = ".MP4" -> ".mp4"
    [] e = ".WEBP" -> ".webp"
    [] OTHER -> e

\* variant: the upper-case candidate never built
ToUpperSame(e) == e

ToUpper(e) ==
  CASE e \in {".jpg", ".Jpg"} -> ".JPG"
    [] e = ".jpeg" -> ".JPEG"
    [] e = ".png" -> ".PNG"
    [] e = ".gif" -> ".GIF"
    [] e = ".webp" -> ".WEBP"
    [] e = ".mp4" -> ".MP4"
    [] e = ".mov" -> ".MOV"
    [] e = ".mkv" -> ".MKV"
    [] e = ".webm" -> ".WEBM"
    [] OTHER -> e

(***************************************************************************)
(* The media tree under imagesDir: tree is the set of files that exist     *)
(* (never modified by the server); images is the tree the engine is run    *)
(* on.                                                                     *)
(***************************************************************************)
File(d, b, e) == [dir |-> d, base |-> b, ext |-> e]

images == {File("", "a", ".jpg"), File("d", "b", ".MP4")}

Dirs == {"", "d"}

\* thumbPathFor: the source's extension replaced by ".webp", under thumbsDir
thumbPathFor(rel) == File(rel.dir, rel.base, ".webp")

\* the thumbnail paths a request may name
ThumbPaths == {thumbPathFor(s) : s \in images} \cup {File("", "c", ".webp")}

(***************************************************************************)
(* webpToSource: the candidates the probe can return.  The loops range     *)
(* over Go maps, whose iteration order is not fixed: any extension whose   *)
(* lower- or upper-case candidate exists may be the first one hit; within  *)
(* one extension the lower-case candidate is probed first.  Video          *)
(* extensions are probed only when no image candidate exists.  The empty   *)
(* set stands for the "" result.                                           *)
(***************************************************************************)
ProbeHits(webpRel, exts) ==
  { c \in tree :
      \E ext \in exts :
        \/ c = File(webpRel.dir, webpRel.base, ext)
        \/ /\ c = File(webpRel.dir, webpRel.base, ToUpper(ext))
           /\ File(webpRel.dir, webpRel.base, ext) \notin tree }

webpToSource(webpRel) ==
  IF ProbeHits(webpRel, imageExts) # {}
    THEN ProbeHits(webpRel, imageExts)
    ELSE ProbeHits(webpRel, videoExts)

(***************************************************************************)
(* The goroutines.                                                         *)
(***************************************************************************)
Task(k, p, r, c) ==
  [kind |-> k, pc |-> p, rel |-> r, clean |-> c, mu |-> 0, miss |-> FALSE]

Running == BagToSet(tasks)

Count(k) ==
  BagCardinality([t \in {x \in Running : x.kind = k} |-> tasks[t]])

Add(t) == tasks (+) SetToBag({t})

Del(t) == tasks (-) SetToBag({t})

Move(t, u) == (tasks (-) SetToBag({t})) (+) SetToBag({u})

\* the artifact a goroutine inside generateThumb works on
Key(t) == thumbPathFor(t.rel)

\* os.Stat(thumbPath) succeeds: a file is there, finished or not
Exists(p) == thumbs[p].st # "absent"

Absent == [st |-> "absent", from |-> File("", "", "")]

\* no request handled yet; no image decoded yet
NoRequest == [handler |-> "", path |-> <<>>, status |-> 0, fs |-> {}]

NoImage == [pc |-> "idle", srcW |-> 0, srcH |-> 0, dstW |-> 0, dstH |-> 0, err |-> "nil"]

RECURSIVE SumOver(_, _)
SumOver(f, S) ==
  IF S = {} THEN 0
  ELSE LET x == CHOOSE y \in S : TRUE IN f[x] + SumOver(f, S \ {x})

TotalFails == SumOver(fails, ThumbPaths)

(***************************************************************************)
(* The front-end App: the values of its state hooks, and the listing       *)
(* requests it has sent that are not answered yet, oldest first.  A path   *)
(* is the sequence of its components.  Unmounted is the state of the       *)
(* hooks before the first effect has run.                                  *)
(***************************************************************************)
null == [null |-> TRUE]

Unmounted ==
  [path |-> <<>>, data |-> null, loading |-> TRUE, error |-> null, fetches |-> <<>>]

Init ==
  /\ tasks = EmptyBag
  /\ thumbs = [p \in ThumbPaths |-> Absent]
  /\ thumbLocks = [p \in ThumbPaths |-> 0]
  /\ locked = {}
  /\ workerSem = 0
  /\ runs = [p \in ThumbPaths |-> 0]
  /\ fails = [p \in ThumbPaths |-> 0]
  /\ http = NoRequest
  /\ img = NoImage
  /\ tree = images
  /\ app = Unmounted

\* variant: the channel made one item too large
chanFullOffByOne(n) == n > maxWorkers

\* a send on workerSem blocks while the channel holds cap(workerSem) items
chanFull(n) == n >= maxWorkers

(***************************************************************************)
(* handleList.  os.ReadDir gives the entries of one directory: the files   *)
(* of the tree in it and its sub-directories.  An entry is its path (the   *)
(* name is base followed by ext, ext being filepath.Ext(name)) and IsDir.  *)
(***************************************************************************)
\* the sub-directories of the media tree
Folders == {File("", "d", ""), File("", "s", ".png"), File("", "", ".git")}

\* the base names in use that start with a dot
DotBases == {".h"}

ReadDir(dir) ==
  {[rel |-> f, isDir |-> FALSE] : f \in {g \in tree : g.dir = dir}}
    \cup {[rel |-> f, isDir |-> TRUE] : f \in {g \in Folders : g.dir = dir}}

\* variant: dot files listed like any other
HasDotPrefixNever(rel) == FALSE

\* line 173: strings.HasPrefix(name, ".")
HasDotPrefix(rel) ==
  IF rel.base = "" THEN rel.ext # "" ELSE rel.base \in DotBases

\* lines 172-188: where the loop body puts an entry
classify(entry) ==
  IF HasDotPrefix(entry.rel) THEN "continue"
  ELSE IF entry.isDir THEN "Directories"
  ELSE IF ToLower(entry.rel.ext) \in imageExts THEN "Images"
  ELSE IF ToLower(entry.rel.ext) \in videoExts THEN "Videos"
  ELSE "continue"

\* entry.Name()
Name(rel) == [base |-> rel.base, ext |-> rel.ext]

\* lines 163-189: the response, each list as the set of its names
ListResponse(dir) ==
  [Directories |-> {Name(e.rel) : e \in {x \in ReadDir(dir) : classify(x) = "Directories"}},
   Images |-> {Name(e.rel) : e \in {x \in ReadDir(dir) : classify(x) = "Images"}},
   Videos |-> {Name(e.rel) : e \in {x \in ReadDir(dir) : classify(x) = "Videos"}}]

\* lines 169-189: entryRel of every entry appended to Images or Videos
thumbTargets(dir) ==
  {e.rel : e \in {x \in ReadDir(dir) : classify(x) \in {"Images", "Videos"}}}

\* variant: pregenThumb called without go; the handler goes on once the
\* call is past the semaphore
callPregenThumb(targets) ==
  /\ targets # {} => ~chanFull(workerSem)
  /\ tasks' = tasks (+) SetToBag({Task("bg", "pregen", f, thumbPathFor(f)) :
                                    f \in targets})

\* lines 192-194: go pregenThumb(t) for every target; the go statement
\* starts the goroutine and does not wait for it
goPregenThumb(targets) ==
  tasks' = tasks (+) SetToBag({Task("bg", "pregen", f, thumbPathFor(f)) :
                                 f \in targets})

\* the handler as the engine sees it: the goroutines it starts
handleList(dir) ==
  /\ Count("bg") + Cardinality(thumbTargets(dir)) =< MaxBg
  /\ goPregenThumb(thumbTargets(dir))
  /\ UNCHANGED <<thumbs, thumbLocks, locked, workerSem, runs, fails, http, img, tree, app>>

(***************************************************************************)
(* pregenThumb.                                                            *)
(***************************************************************************)
\* lines 269-272: the lock-free existence check
pregenStat(t) ==
  /\ t.pc = "pregen"
  /\ tasks' = IF Exists(Key(t)) THEN Del(t) ELSE Move(t, [t EXCEPT !.pc = "sem"])
  /\ UNCHANGED <<thumbs, thumbLocks, locked, workerSem, runs, fails, http, img, tree, app>>

(***************************************************************************)
(* generateThumb, line 285: thumbLocks.LoadOrStore(thumbPath,              *)
(* &sync.Mutex{}) returns the handle stored under the key, storing a       *)
(* freshly allocated one if none is.  Handles of one key are numbered from *)
(* 1; 0 is "no entry".                                                     *)
(***************************************************************************)
\* variant: a plain Store of the freshly allocated handle
StoreFresh(key) == thumbLocks[key] + 1

LoadOrStore(key) ==
  IF thumbLocks[key] = 0 THEN 1 ELSE thumbLocks[key]

\* line 273, then line 285: workerSem <- struct{}{} blocks while the channel
\* is full; generateThumb is entered and looks up its handle
semAcquire(t) ==
  /\ t.pc = "sem"
  /\ ~chanFull(workerSem)
  /\ workerSem' = workerSem + 1
  /\ thumbLocks' = [thumbLocks EXCEPT ![Key(t)] = LoadOrStore(Key(t))]
  /\ tasks' = Move(t, [t EXCEPT !.pc = "lock", !.mu = LoadOrStore(Key(t))])
  /\ UNCHANGED <<thumbs, locked, runs, fails, http, img, tree, app>>

\* variant: no re-check under the lock
recheckSkipped(key) == FALSE

\* variant: a failed attempt is remembered and later calls return at once
recheckMemo(key) == Exists(key) \/ fails[key] > 0

\* lines 290-292: the re-check under the lock
recheck(key) == Exists(key)

(***************************************************************************)
(* generateThumb returns e to its caller (the deferred Unlock of line 287  *)
(* has run).  pregenThumb logs an error (lines 275-277), its deferred      *)
(* <-workerSem (line 274) frees the slot and the goroutine ends.           *)
(* handleThumb answers 500 on an error (lines 228-232) and goes on to      *)
(* serve the file otherwise.                                               *)
(***************************************************************************)
\* variant: the receive placed after the error test, not deferred
releaseOnSuccess(t, e) ==
  IF t.kind = "bg" /\ e = "nil" THEN workerSem - 1 ELSE workerSem

\* line 274: the deferred <-workerSem of pregenThumb; a request holds no slot
release(t, e) == IF t.kind = "bg" THEN workerSem - 1 ELSE workerSem

returned(t, e) ==
  /\ workerSem' = release(t, e)
  /\ tasks' = IF t.kind = "bg" \/ e # "nil"
                THEN Del(t)
                ELSE Move(t, [t EXCEPT !.pc = "serve"])

(***************************************************************************)
(* The codec pipeline.  A step that fails is an input of the behaviour     *)
(* (a corrupt file, a full disk, a missing ffmpeg); at most MaxFails       *)
(* failures are injected.                                                  *)
(***************************************************************************)
isVideo(rel) == ToLower(rel.ext) \in videoExts

\* os.Remove(thumbPath)
osRemove(key) == [thumbs EXCEPT ![key] = Absent]

\* os.Create(thumbPath), or ffmpeg opening its output: a file with none or
\* part of its content
osCreate(t) == [thumbs EXCEPT ![Key(t)] = [st |-> "partial", from |-> t.rel]]

\* variant: Unlock not deferred and skipped by the returns of the pipeline
unlockSkipped(t) == locked

\* line 287: the deferred Unlock of the handle t holds
mutexUnlock(t) == locked \ {<<Key(t), t.mu>>}

failed(t, e) ==
  /\ TotalFails < MaxFails
  /\ fails' = [fails EXCEPT ![Key(t)] = @ + 1]
  /\ returned(t, e)

\* lines 316-346: open, decode, the zero-width test, scale, os.Create; an
\* error returns through the deferred Unlock
generateImageThumb(t) ==
  \/ /\ \E e \in {"open source", "decode image", "zero width", "create thumb file"} :
          failed(t, e)
     /\ locked' = mutexUnlock(t)
     /\ UNCHANGED thumbs
  \/ /\ thumbs' = osCreate(t)
     /\ tasks' = Move(t, [t EXCEPT !.pc = "encode"])
     /\ UNCHANGED <<fails, workerSem, locked>>

\* lines 358-368: ffmpeg is started and opens its output (-y thumbPath), or
\* cannot be run at all and the error returns through the deferred Unlock
generateVideoThumb(t) ==
  \/ /\ failed(t, "ffmpeg")
     /\ thumbs' = osRemove(Key(t))
     /\ locked' = mutexUnlock(t)
  \/ /\ thumbs' = osCreate(t)
     /\ tasks' = Move(t, [t EXCEPT !.pc = "encode"])
     /\ UNCHANGED <<fails, workerSem, locked>>

\* lines 303-313: the pipeline for the kind of the source, up to the creation
\* of the output file
doGenerateThumb(t) ==
  /\ t.pc = "gen"
  /\ runs' = [runs EXCEPT ![Key(t)] = @ + 1]
  /\ IF isVideo(t.rel) THEN generateVideoThumb(t) ELSE generateImageThumb(t)
  /\ UNCHANGED <<thumbLocks, http, img, tree, app>>

\* variant: one mutex for all artifacts
anyMutexFree(key, mu) == locked = {}

\* line 286: Lock goes on only when no goroutine holds this handle
mutexFree(key, mu) == <<key, mu>> \notin locked

\* lines 286-293: Lock blocks while the handle is locked; under the lock the
\* re-check returns nil (through the deferred Unlock) if the file is there,
\* and doGenerateThumb is called otherwise
lockAcquire(t) ==
  /\ t.pc = "lock"
  /\ mutexFree(Key(t), t.mu)
  /\ IF recheck(Key(t))
       THEN /\ returned(t, "nil")
            /\ UNCHANGED locked
       ELSE /\ locked' = locked \cup {<<Key(t), t.mu>>}
            /\ tasks' = Move(t, [t EXCEPT !.pc = "gen"])
            /\ UNCHANGED workerSem
  /\ UNCHANGED <<thumbs, thumbLocks, runs, fails, http, img, tree, app>>

\* variant: the os.Remove of line 350 left out
encodeFailedKept(key) == thumbs

\* what an encode failure leaves at thumbPath (lines 349-352)
encodeFailed(key) == osRemove(key)

\* lines 349-354: webp.Encode into the created file, then the return through
\* the deferred Unlock
webpEncode(t) ==
  /\ t.pc = "encode" /\ ~isVideo(t.rel)
  /\ locked' = mutexUnlock(t)
  /\ \/ /\ failed(t, "encode webp")
        /\ thumbs' = encodeFailed(Key(t))
     \/ /\ thumbs' = [thumbs EXCEPT ![Key(t)].st = "complete"]
        /\ returned(t, "nil")
        /\ UNCHANGED fails
  /\ UNCHANGED <<thumbLocks, runs, http, img, tree, app>>

\* lines 368-374: ffmpeg exits, then the return through the deferred Unlock
ffmpegExit(t) ==
  /\ t.pc = "encode" /\ isVideo(t.rel)
  /\ locked' = mutexUnlock(t)
  /\ \/ /\ failed(t, "ffmpeg")
        /\ thumbs' = osRemove(Key(t))
     \/ /\ thumbs' = [thumbs EXCEPT ![Key(t)].st = "complete"]
        /\ returned(t, "nil")
        /\ UNCHANGED fails
  /\ UNCHANGED <<thumbLocks, runs, http, img, tree, app>>

(***************************************************************************)
(* handleThumb, for a path safePath has accepted.                          *)
(***************************************************************************)
\* variant: a miss queued behind the background work, as pregenThumb is
handleThumbQueued(clean) ==
  /\ Count("fg") < MaxFg
  /\ IF Exists(clean)
       THEN tasks' = Add(Task("fg", "serve", clean, clean))
       ELSE IF webpToSource(clean) = {}
         THEN UNCHANGED tasks
         ELSE \E srcRel \in webpToSource(clean) :
                tasks' = Add([Task("fg", "sem", srcRel, clean) EXCEPT !.miss = TRUE])
  /\ UNCHANGED <<thumbs, thumbLocks, locked, workerSem, runs, fails, http, img, tree, app>>

\* lines 219-228 and 285: the lock-free existence check; on a miss the source
\* is resolved (404 if there is none) and generateThumb is entered
handleThumb(clean) ==
  /\ Count("fg") < MaxFg
  /\ IF Exists(clean)
       THEN /\ tasks' = Add(Task("fg", "serve", clean, clean))
            /\ UNCHANGED thumbLocks
       ELSE IF webpToSource(clean) = {}
         THEN UNCHANGED <<tasks, thumbLocks>>
         ELSE \E srcRel \in webpToSource(clean) :
                /\ thumbLocks' = [thumbLocks EXCEPT ![thumbPathFor(srcRel)] =
                                    LoadOrStore(thumbPathFor(srcRel))]
                /\ tasks' = Add([Task("fg", "lock", srcRel, clean)
                                   EXCEPT !.miss = TRUE,
                                          !.mu = LoadOrStore(thumbPathFor(srcRel))])
  /\ UNCHANGED <<thumbs, locked, workerSem, runs, fails, http, img, tree, app>>

\* line 237: http.ServeFile(w, r, thumbPath) sends what is at thumbPath now
serveFile(t) ==
  /\ t.pc = "serve"
  /\ tasks' = Del(t)
  /\ UNCHANGED <<thumbs, thumbLocks, locked, workerSem, runs, fails, http, img, tree, app>>

Next ==
  \/ \E dir \in Dirs : handleList(dir)
  \/ \E clean \in ThumbPaths : handleThumb(clean)
  \/ \E t \in Running : pregenStat(t)
  \/ \E t \in Running : semAcquire(t)
  \/ \E t \in Running : lockAcquire(t)
  \/ \E t \in Running : doGenerateThumb(t)
  \/ \E t \in Running : webpEncode(t)
  \/ \E t \in Running : ffmpegExit(t)
  \/ \E t \in Running : serveFile(t)

Spec == Init /\ [][Next]_vars

(***************************************************************************)
(* The engine under fair scheduling, for a mix of calls that have been     *)
(* made and none of which has run yet: the pregenThumb goroutines started  *)
(* by listings, and thumbnail requests that missed and entered             *)
(* generateThumb (their LoadOrStore is done, they are at Lock).  A call    *)
(* that has not taken a step is, for the others, a call not yet made, so   *)
(* the behaviours cover calls arriving while others proceed.  The Go       *)
(* scheduler runs some goroutine as long as one can run; the codecs are    *)
(* taken to terminate.                                                     *)
(***************************************************************************)
\* the step of goroutine t
Step(t) ==
  /\ t \in Running
  /\ \/ pregenStat(t)
     \/ semAcquire(t)
     \/ lockAcquire(t)
     \/ doGenerateThumb(t)
     \/ webpEncode(t)
     \/ ffmpegExit(t)
     \/ serveFile(t)

\* m[r] background calls and n[r] requests for source r
Calls(m, n) ==
  [t \in {Task("bg", "pregen", r, thumbPathFor(r)) : r \in {x \in images : m[x] > 0}}
     |-> m[t.rel]]
    (+) [t \in {[Task("fg", "lock", r, thumbPathFor(r)) EXCEPT !.mu = 1, !.miss = TRUE] :
                  r \in {x \in images : n[x] > 0}}
           |-> n[t.rel]]

InitFair ==
  /\ \E m \in [images -> 0..MaxBg], n \in [images -> 0..MaxFg] :
       /\ SumOver(m, images) =< MaxBg
       /\ SumOver(n, images) =< MaxFg
       /\ tasks = Calls(m, n)
       /\ thumbLocks = [p \in ThumbPaths |->
                          IF \E r \in images : n[r] > 0 /\ thumbPathFor(r) = p
                            THEN 1 ELSE 0]
  /\ thumbs = [p \in ThumbPaths |-> Absent]
  /\ locked = {}
  /\ workerSem = 0
  /\ runs = [p \in ThumbPaths |-> 0]
  /\ fails = [p \in ThumbPaths |-> 0]
  /\ http = NoRequest
  /\ img = NoImage
  /\ tree = images
  /\ app = Unmounted

NextFair ==
  \/ \E t \in Running : pregenStat(t)
  \/ \E t \in Running : semAcquire(t)
  \/ \E t \in Running : lockAcquire(t)
  \/ \E t \in Running : doGenerateThumb(t)
  \/ \E t \in Running : webpEncode(t)
  \/ \E t \in Running : ffmpegExit(t)
  \/ \E t \in Running : serveFile(t)

SpecFair == InitFair /\ [][NextFair]_vars /\ WF_vars(NextFair)

(***************************************************************************)
(* The engine on a media tree in which two files differ only in their      *)
(* extension.                                                              *)
(***************************************************************************)
InitShared ==
  /\ tasks = EmptyBag
  /\ thumbs = [p \in ThumbPaths |-> Absent]
  /\ thumbLocks = [p \in ThumbPaths |-> 0]
  /\ locked = {}
  /\ workerSem = 0
  /\ runs = [p \in ThumbPaths |-> 0]
  /\ fails = [p \in ThumbPaths |-> 0]
  /\ http = NoRequest
  /\ img = NoImage
  /\ tree = {File("", "a", ".jpg"), File("", "a", ".MP4")}
  /\ app = Unmounted

SpecShared == InitShared /\ [][Next]_vars

(***************************************************************************)
(* Request paths.  A caller-supplied path is a sequence of characters; its *)
(* components are the runs between "/".                                    *)
(***************************************************************************)
\* longest request path
MaxPathLen == 5

Chars == {"/", ".", "a"}

Paths == UNION {[1..n -> Chars] : n \in 0..MaxPathLen}

Dot == <<".">>

DotDot == <<".", ".">>

\* filepath.IsAbs (Unix): the path starts with the separator
IsAbs(path) == Len(path) > 0 /\ path[1] = "/"

RECURSIVE Split(_, _)
Split(path, cur) ==
  IF path = <<>> THEN <<cur>>
  ELSE IF Head(path) = "/" THEN <<cur>> \o Split(Tail(path), <<>>)
  ELSE Split(Tail(path), Append(cur, Head(path)))

RECURSIVE Join(_)
Join(comps) ==
  IF comps = <<>> THEN <<>>
  ELSE IF Len(comps) = 1 THEN comps[1]
  ELSE comps[1] \o <<"/">> \o Join(Tail(comps))

\* filepath.Clean, component by component: empty and "." components are
\* dropped, ".." removes the component before it, is dropped at the root of
\* a rooted path and is kept otherwise
RECURSIVE CleanStack(_, _, _)
CleanStack(comps, stack, rooted) ==
  IF comps = <<>> THEN stack
  ELSE LET c == Head(comps)
           rest == Tail(comps)
       IN  IF c = <<>> \/ c = Dot THEN CleanStack(rest, stack, rooted)
           ELSE IF c = DotDot
             THEN IF stack # <<>> /\ stack[Len(stack)] # DotDot
                    THEN CleanStack(rest, SubSeq(stack, 1, Len(stack) - 1), rooted)
                    ELSE IF rooted THEN CleanStack(rest, stack, rooted)
                    ELSE CleanStack(rest, Append(stack, DotDot), rooted)
             ELSE CleanStack(rest, Append(stack, c), rooted)

Clean(path) ==
  LET out == Join(CleanStack(Split(path, <<>>), <<>>, IsAbs(path)))
  IN  IF IsAbs(path) THEN <<"/">> \o out
      ELSE IF out = <<>> THEN Dot ELSE out

\* strings.Contains(s, "..")
ContainsDotDot(s) == \E i \in 1..(Len(s) - 1) : s[i] = "." /\ s[i + 1] = "."

Rejected == [err |-> TRUE, path |-> <<>>]

\* variant: the absolute-path test left out
safePathNoAbs(rel) ==
  LET cleaned == IF Clean(rel) = Dot THEN <<>> ELSE Clean(rel)
  IN  IF ContainsDotDot(cleaned) THEN Rejected
      ELSE [err |-> FALSE, path |-> cleaned]

\* safePath, lines 130-142
safePath(rel) ==
  IF IsAbs(rel) THEN Rejected
  ELSE LET cleaned == IF Clean(rel) = Dot THEN <<>> ELSE Clean(rel)
       IN  IF ContainsDotDot(cleaned) THEN Rejected
           ELSE [err |-> FALSE, path |-> cleaned]

(***************************************************************************)
(* The handlers as seen from one request: the status answered and the      *)
(* filesystem operations and goroutines the request caused.  What the      *)
(* filesystem holds at an accepted path is an input of the request.        *)
(***************************************************************************)
Request(h, rel) == [handler |-> h, path |-> rel, status |-> 0, fs |-> {}]

Answer(st, ops) == http' = [http EXCEPT !.status = st, !.fs = ops]

InitPath ==
  /\ tasks = EmptyBag
  /\ thumbs = [p \in ThumbPaths |-> Absent]
  /\ thumbLocks = [p \in ThumbPaths |-> 0]
  /\ locked = {}
  /\ workerSem = 0
  /\ runs = [p \in ThumbPaths |-> 0]
  /\ fails = [p \in ThumbPaths |-> 0]
  /\ img = NoImage
  /\ tree = images
  /\ \E h \in {"list", "thumb", "image"}, rel \in Paths : http = Request(h, rel)
  /\ app = Unmounted

\* handleList, lines 144-198
listRequest(rel) ==
  /\ http = Request("list", rel)
  /\ IF safePath(rel).err
       THEN Answer(400, {})
       ELSE \/ Answer(404, {"ReadDir"})
            \/ Answer(500, {"ReadDir"})
            \/ Answer(200, {"ReadDir"})
            \/ Answer(200, {"ReadDir", "go pregenThumb"})
  /\ UNCHANGED <<tasks, thumbs, thumbLocks, locked, workerSem, runs, fails, img, tree, app>>

\* handleThumb, lines 211-238
thumbRequest(rel) ==
  /\ http = Request("thumb", rel)
  /\ IF safePath(rel).err \/ safePath(rel).path = <<>>
       THEN Answer(400, {})
       ELSE \/ Answer(200, {"Stat", "ServeFile"})
            \/ Answer(404, {"Stat"})
            \/ Answer(500, {"Stat", "generateThumb"})
            \/ Answer(200, {"Stat", "generateThumb", "ServeFile"})
  /\ UNCHANGED <<tasks, thumbs, thumbLocks, locked, workerSem, runs, fails, img, tree, app>>

\* handleImage, lines 200-209
handleImage(rel) ==
  /\ http = Request("image", rel)
  /\ IF safePath(rel).err \/ safePath(rel).path = <<>>
       THEN Answer(400, {})
       ELSE \/ Answer(200, {"ServeFile"})
            \/ Answer(404, {"ServeFile"})
  /\ UNCHANGED <<tasks, thumbs, thumbLocks, locked, workerSem, runs, fails, img, tree, app>>

NextPath ==
  \/ \E rel \in Paths : listRequest(rel)
  \/ \E rel \in Paths : thumbRequest(rel)
  \/ \E rel \in Paths : handleImage(rel)

SpecPath == InitPath /\ [][NextPath]_vars

(***************************************************************************)
(* The size of a thumbnail, generateImageThumb lines 327-340, for a        *)
(* decoded image of srcW x srcH pixels.                                    *)
(***************************************************************************)
\* the source sizes tried: every size up to MaxDim and the hundreds up to
\* 100 * MaxDim
MaxDim == 8

Widths == (0..MaxDim) \cup {100 * k : k \in 1..MaxDim}

Heights == (0..MaxDim) \cup {100 * k : k \in 1..MaxDim}

\* variant: the test for a zero height left out
scaledHeightNoFloor(srcW, srcH) == (srcH * thumbWidth) \div srcW

\* lines 335-338: Go's integer division, then the floor of one pixel
scaledHeight(srcW, srcH) ==
  IF (srcH * thumbWidth) \div srcW = 0 THEN 1 ELSE (srcH * thumbWidth) \div srcW

InitDim ==
  /\ tasks = EmptyBag
  /\ thumbs = [p \in ThumbPaths |-> Absent]
  /\ thumbLocks = [p \in ThumbPaths |-> 0]
  /\ locked = {}
  /\ workerSem = 0
  /\ runs = [p \in ThumbPaths |-> 0]
  /\ fails = [p \in ThumbPaths |-> 0]
  /\ http = NoRequest
  /\ tree = images
  /\ \E w \in Widths, h \in Heights :
       img = [NoImage EXCEPT !.pc = "decoded", !.srcW = w, !.srcH = h]
  /\ app = Unmounted

\* lines 327-340: the bounds of the decoded image, the zero-width error, the
\* destination rectangle
scaleImage ==
  /\ img.pc = "decoded"
  /\ img' = IF img.srcW = 0
              THEN [img EXCEPT !.pc = "failed", !.err = "zero width"]
              ELSE [img EXCEPT !.pc = "scaled", !.dstW = thumbWidth,
                               !.dstH = scaledHeight(img.srcW, img.srcH)]
  /\ UNCHANGED <<tasks, thumbs, thumbLocks, locked, workerSem, runs, fails, http, tree, app>>

NextDim == scaleImage

SpecDim == InitDim /\ [][NextDim]_vars

(***************************************************************************)
(* The resolver on its own: webpToSource as handleThumb calls it on a miss *)
(* (line 223), over the media trees of at most MaxFiles files named        *)
(* "photo" or "other" in the root directory.  The file system tells the    *)
(* spellings of a name apart (os.Stat of photo.jpg fails when only         *)
(* photo.JPG exists).                                                      *)
(***************************************************************************)
\* most files in a media tree of the resolver
MaxFiles == 3

Spellings == {".jpg", ".JPG", ".Jpg", ".png", ".PNG", ".mp4", ".MP4", ".txt"}

Candidates ==
  {File("", "photo", e) : e \in Spellings} \cup {File("", "other", ".jpg")}

Trees == {t \in SUBSET Candidates : Cardinality(t) =< MaxFiles}

WebpRels == {File("", "photo", ".webp"), File("", "other", ".webp")}

\* the "" result of webpToSource
NoSource == File("", "", "")

\* a call of webpToSource and the path it returned
Resolved(webpRel, srcRel) ==
  [handler |-> "webpToSource", webpRel |-> webpRel, srcRel |-> srcRel]

InitResolve ==
  /\ tasks = EmptyBag
  /\ thumbs = [p \in ThumbPaths |-> Absent]
  /\ thumbLocks = [p \in ThumbPaths |-> 0]
  /\ locked = {}
  /\ workerSem = 0
  /\ runs = [p \in ThumbPaths |-> 0]
  /\ fails = [p \in ThumbPaths |-> 0]
  /\ http = NoRequest
  /\ img = NoImage
  /\ tree \in Trees
  /\ app = Unmounted

\* lines 242-265: one call; the candidate returned is the first hit in the
\* order the two range loops happen to take
resolve(webpRel) ==
  /\ IF webpToSource(webpRel) = {}
       THEN http' = Resolved(webpRel, NoSource)
       ELSE \E srcRel \in webpToSource(webpRel) : http' = Resolved(webpRel, srcRel)
  /\ UNCHANGED <<tasks, thumbs, thumbLocks, locked, workerSem, runs, fails, img, tree, app>>

NextResolve == \E webpRel \in WebpRels : resolve(webpRel)

SpecResolve == InitResolve /\ [][NextResolve]_vars

(***************************************************************************)
(* The listing handler with its response, lines 152-197, for a directory   *)
(* that can be read.  The response is recorded with the number of slots    *)
(* held and of generations failed at the moment it is written.             *)
(***************************************************************************)
Listed(dir) ==
  [handler |-> "list", dir |-> dir, status |-> 200, resp |-> ListResponse(dir),
   held |-> workerSem, failed |-> TotalFails]

listDir(dir) ==
  /\ Count("bg") + Cardinality(thumbTargets(dir)) =< MaxBg
  /\ goPregenThumb(thumbTargets(dir))
  /\ http' = Listed(dir)
  /\ UNCHANGED <<thumbs, thumbLocks, locked, workerSem, runs, fails, img, tree, app>>

\* the files a listed tree is made of: images and videos in lower, upper and
\* mixed case, dot files, other files
ListFiles ==
  {File("", "a", ".jpg"), File("", "p", ".Jpg"), File("", "v", ".MP4"),
   File("", ".h", ".jpg"), File("", "", ".png"), File("", "n", ".txt"),
   File("", "m", ""), File("d", "b", ".MP4")}

ListTrees == {t \in SUBSET ListFiles : Cardinality(t) =< MaxFiles}

InitList ==
  /\ tasks = EmptyBag
  /\ thumbs = [p \in ThumbPaths |-> Absent]
  /\ thumbLocks = [p \in ThumbPaths |-> 0]
  /\ locked = {}
  /\ workerSem = 0
  /\ runs = [p \in ThumbPaths |-> 0]
  /\ fails = [p \in ThumbPaths |-> 0]
  /\ http = NoRequest
  /\ img = NoImage
  /\ tree \in ListTrees
  /\ app = Unmounted

NextList == \E dir \in Dirs : listDir(dir)

SpecList == InitList /\ [][NextList]_vars

(***************************************************************************)
(* Listings next to the background goroutines they start.                  *)
(***************************************************************************)
NextPregen ==
  \/ \E dir \in Dirs : listDir(dir)
  \/ \E t \in Running : pregenStat(t)
  \/ \E t \in Running : semAcquire(t)
  \/ \E t \in Running : lockAcquire(t)
  \/ \E t \in Running : doGenerateThumb(t)
  \/ \E t \in Running : webpEncode(t)
  \/ \E t \in Running : ffmpegExit(t)

SpecPregen == Init /\ [][NextPregen]_vars

(***************************************************************************)
(* The round trip of a listed name: the front-end shows a listing and      *)
(* asks for the thumbnail of each name under images or videos at the URL   *)
(* thumbUrl derives; handleThumb answers it.  Media trees are those of     *)
(* the listing; an artifact is absent or was generated earlier from a      *)
(* listed source.  A generation that is entered (line 228) ends with the   *)
(* artifact written or with an error.                                      *)
(***************************************************************************)
\* thumbUrl: filename cut at its last "." (lastIndexOf is -1 and the cut is
\* empty when there is none), ".webp" appended, under path
thumbUrl(path, filename) ==
  IF filename.ext = ""
    THEN File(path, "", ".webp")
    ELSE File(path, filename.base, ".webp")

\* the thumbnail paths of the files a listed tree is made of
ListThumbPaths == ThumbPaths \cup {thumbPathFor(f) : f \in ListFiles}

\* the sources handleList starts a generation for
ListedSources == UNION {thumbTargets(dir) : dir \in Dirs}

\* a thumbnail request of the front-end and its answer, next to the listing
\* the front-end shows
Thumbed(name, clean, status, srcRel) ==
  [handler |-> "thumb", dir |-> http.dir, resp |-> http.resp, name |-> name,
   clean |-> clean, status |-> status, srcRel |-> srcRel]

InitRound ==
  /\ tasks = EmptyBag
  /\ tree \in ListTrees
  /\ \E done \in SUBSET ListedSources :
       thumbs = [p \in ListThumbPaths |->
                   IF \E f \in done : thumbPathFor(f) = p
                     THEN [st |-> "complete",
                           from |-> CHOOSE f \in done : thumbPathFor(f) = p]
                     ELSE Absent]
  /\ thumbLocks = [p \in ListThumbPaths |-> 0]
  /\ locked = {}
  /\ workerSem = 0
  /\ runs = [p \in ListThumbPaths |-> 0]
  /\ fails = [p \in ListThumbPaths |-> 0]
  /\ http = NoRequest
  /\ img = NoImage
  /\ app = Unmounted

\* part_000 lines 161-193 and part_001 lines 212-237: the thumbnail of a
\* name of the listing shown is requested at thumbUrl(path, name)
imgThumb(name) ==
  /\ http.handler \in {"list", "thumb"}
  /\ name \in http.resp.Images \cup http.resp.Videos
  /\ LET clean == thumbUrl(http.dir, name) IN
       IF Exists(clean)
         THEN /\ http' = Thumbed(name, clean, 200, NoSource)
              /\ UNCHANGED <<thumbs, runs, fails>>
         ELSE IF webpToSource(clean) = {}
           THEN /\ http' = Thumbed(name, clean, 404, NoSource)
                /\ UNCHANGED <<thumbs, runs, fails>>
           ELSE \E srcRel \in webpToSource(clean) :
                  \/ /\ http' = Thumbed(name, clean, 200, srcRel)
                     /\ thumbs' = [thumbs EXCEPT ![thumbPathFor(srcRel)] =
                                     [st |-> "complete", from |-> srcRel]]
                     /\ runs' = [runs EXCEPT ![thumbPathFor(srcRel)] = 1]
                     /\ UNCHANGED fails
                  \/ /\ http' = Thumbed(name, clean, 500, srcRel)
                     /\ fails' = [fails EXCEPT ![thumbPathFor(srcRel)] = 1]
                     /\ UNCHANGED <<thumbs, runs>>
  /\ UNCHANGED <<tasks, thumbLocks, locked, workerSem, img, tree, app>>

NextRound ==
  \/ \E dir \in Dirs : listDir(dir)
  \/ \E name \in {Name(f) : f \in ListFiles} : imgThumb(name)

SpecRound == InitRound /\ [][NextRound]_vars

(***************************************************************************)
(* The front-end App (part_000 lines 42-72) against the listing endpoint.  *)
(* Setting a path that differs from the current one re-renders and runs    *)
(* the effect, which sends a listing request; the effect has no cleanup,   *)
(* and a request is neither aborted nor marked when the path changes.      *)
(* The callbacks of one response (then or catch, then finally) run in one  *)
(* turn of the event loop; responses arrive in any order.                  *)
(***************************************************************************)
\* most components of a path; most requests unanswered at once
MaxDepth == 2

MaxFetches == 2

\* the path as handleList reads it: a directory of the media tree or not
IsDirectory(path) ==
  \/ path = <<>>
  \/ Len(path) = 1 /\ File("", path[1].base, path[1].ext) \in Folders

\* the relative path of a directory of the media tree
DirOf(path) == IF path = <<>> THEN "" ELSE path[1].base \o path[1].ext

\* err.message as shown
Failure(message) == [message |-> message]

\* lines 48-62, up to the fetch call
useEffect(path) ==
  app' = [app EXCEPT !.path = path, !.loading = TRUE, !.error = null,
                     !.fetches = Append(app.fetches, path)]

\* the first render: the effect runs for the initial path
InitApp ==
  /\ tasks = EmptyBag
  /\ thumbs = [p \in ThumbPaths |-> Absent]
  /\ thumbLocks = [p \in ThumbPaths |-> 0]
  /\ locked = {}
  /\ workerSem = 0
  /\ runs = [p \in ThumbPaths |-> 0]
  /\ fails = [p \in ThumbPaths |-> 0]
  /\ http = NoRequest
  /\ img = NoImage
  /\ tree = images
  /\ app = [Unmounted EXCEPT !.fetches = <<Unmounted.path>>]

\* setPath with a new value: the state changes and the effect runs
setPath(path) ==
  /\ path # app.path
  /\ Len(app.fetches) < MaxFetches
  /\ useEffect(path)
  /\ UNCHANGED <<tasks, thumbs, thumbLocks, locked, workerSem, runs, fails, http,
                 img, tree>>

\* lines 64-72: a breadcrumb, Home (index -1) or one of pathParts
navigateTo(index) ==
  /\ index < Len(app.path)
  /\ IF index < 0 THEN setPath(<<>>) ELSE setPath(SubSeq(app.path, 1, index + 1))

\* a folder button, rendered only under data && !loading:
\* setPath(path ? `${path}/${dir}` : dir)
openFolder(dir) ==
  /\ app.data # null /\ ~app.loading
  /\ dir \in app.data.Directories
  /\ Len(app.path) < MaxDepth
  /\ setPath(Append(app.path, dir))

\* the sequence without its i-th element
Without(seq, i) == SubSeq(seq, 1, i - 1) \o SubSeq(seq, i + 1, Len(seq))

\* lines 55-61: the response to the i-th unanswered request arrives, or the
\* request fails; setData or setError, then setLoading(false)
settle(i) ==
  /\ i \in 1..Len(app.fetches)
  /\ \/ /\ IsDirectory(app.fetches[i])
        /\ app' = [app EXCEPT !.data = ListResponse(DirOf(app.fetches[i])),
                              !.loading = FALSE,
                              !.fetches = Without(app.fetches, i)]
     \/ /\ ~IsDirectory(app.fetches[i])
        /\ app' = [app EXCEPT !.error = Failure("HTTP 404"),
                              !.loading = FALSE,
                              !.fetches = Without(app.fetches, i)]
     \/ app' = [app EXCEPT !.error = Failure("Failed to fetch"),
                           !.loading = FALSE,
                           !.fetches = Without(app.fetches, i)]
  /\ UNCHANGED <<tasks, thumbs, thumbLocks, locked, workerSem, runs, fails, http,
                 img, tree>>

NextApp ==
  \/ \E index \in -1..(MaxDepth - 1) : navigateTo(index)
  \/ \E dir \in {Name(f) : f \in Folders} : openFolder(dir)
  \/ \E i \in 1..MaxFetches : settle(i)

SpecApp == InitApp /\ [][NextApp]_vars

(***************************************************************************)
(* Properties of the generation engine.                                    *)
(***************************************************************************)
CountOf(S) == BagCardinality([t \in S |-> tasks[t]])

Complete(key) == thumbs[key].st = "complete"

\* the goroutines holding the lock of key (inside the pipeline)
InPipeline(key) == {t \in Running : t.pc \in {"gen", "encode"} /\ Key(t) = key}

\* the background goroutines inside generateThumb
BgInside == {t \in Running : t.kind = "bg" /\ t.pc \in {"lock", "gen", "encode"}}

\* goroutine t takes a step
Stepped(t) == CopiesIn(t, tasks') < CopiesIn(t, tasks)

\* generateThumb returns nil to t's caller in this step
ReturnsNil(t) ==
  /\ t.pc \in {"lock", "gen", "encode"}
  /\ Stepped(t)
  /\ fails' = fails
  /\ tasks' = IF t.kind = "bg" THEN Del(t) ELSE Move(t, [t EXCEPT !.pc = "serve"])

\* generateThumb returns to t's caller in this step
Returns(t) ==
  /\ t.pc \in {"lock", "gen", "encode"}
  /\ Stepped(t)
  /\ BagCardinality(tasks') = BagCardinality(tasks) - 1 \/ ReturnsNil(t)

\* C1: while the pipeline has not failed for an artifact that was absent at
\* the start, it has been executed at most once for it, and every ensure
\* call on it that returns, foreground or background, returns nil with the
\* artifact complete and the pipeline executed exactly once in total.
C1_Inv ==
  \A key \in ThumbPaths :
    fails[key] = 0 =>
      /\ runs[key] =< 1
      /\ \A t \in Running :
           (t.pc = "serve" /\ t.miss /\ Key(t) = key) =>
             (runs[key] = 1 /\ Complete(key))

C1_Act ==
  \A t \in Running :
    (Returns(t) /\ fails'[Key(t)] = 0) =>
      (ReturnsNil(t) /\ runs'[Key(t)] = 1 /\ thumbs'[Key(t)].st = "complete")

C1_ExactlyOnce == [] C1_Inv /\ [][C1_Act]_vars

\* a foreground call has returned nil after the single execution while a
\* concurrent background call on the same artifact still waits for the lock
C1_Witness ==
  \E t \in Running, u \in Running :
    /\ t.kind = "fg" /\ t.pc = "serve" /\ t.miss
    /\ u.kind = "bg" /\ u.pc = "lock" /\ Key(u) = Key(t)
    /\ fails[Key(t)] = 0 /\ runs[Key(t)] = 1

\* C2: a request that takes the lock-free "already exists" path serves the
\* complete output of a generation that has finished.
C2_FastPathComplete ==
  \A t \in Running :
    (t.kind = "fg" /\ t.pc = "serve" /\ ~t.miss) => Complete(t.clean)

\* C3: at most one goroutine holds the lock of an artifact, hence at most one
\* is inside the pipeline for it, and at most one handle per key is locked.
C3_MutualExclusion ==
  /\ \A key \in ThumbPaths : CountOf(InPipeline(key)) =< 1
  /\ \A g \in locked, h \in locked : g[1] = h[1] => g = h

\* one goroutine in the pipeline while a request and a background task wait
\* for the same lock
C3_Witness ==
  \E t \in Running, u \in Running, v \in Running :
    /\ t.pc = "gen"
    /\ u.kind = "fg" /\ u.pc = "lock" /\ Key(u) = Key(t)
    /\ v.kind = "bg" /\ v.pc = "lock" /\ Key(v) = Key(t)

\* C4: the background goroutines inside generateThumb are exactly the
\* holders of the slots in use, and there are at most maxWorkers of them.
C4_AdmissionBound ==
  /\ CountOf(BgInside) = workerSem
  /\ workerSem =< maxWorkers
  /\ CountOf({t \in BgInside : t.pc \in {"gen", "encode"}}) =< maxWorkers

\* all slots taken and a further background task blocked on the semaphore
C4_Witness ==
  /\ workerSem = maxWorkers
  /\ \E t \in Running : t.kind = "bg" /\ t.pc = "sem"

\* C5: a thumbnail request never waits for a slot and holds none: it is
\* accepted and, when the lock of its artifact is free, enters the pipeline
\* whatever the state of the semaphore.
C5_ForegroundBypass ==
  /\ \A t \in Running : t.kind = "fg" => t.pc \in {"lock", "gen", "encode", "serve"}
  /\ CountOf(BgInside) = workerSem
  /\ \A t \in Running :
       (t.kind = "fg" /\ t.pc = "lock" /\ <<Key(t), t.mu>> \notin locked)
         => ENABLED lockAcquire(t)
  /\ \A clean \in ThumbPaths : Count("fg") < MaxFg => ENABLED handleThumb(clean)

\* all slots held by background tasks on other artifacts, one more queued,
\* and a request inside the pipeline
C5_Witness ==
  \E t \in Running :
    /\ t.kind = "fg" /\ t.pc \in {"gen", "encode"}
    /\ workerSem = maxWorkers
    /\ \A u \in BgInside : Key(u) # Key(t)
    /\ \E u \in Running : u.kind = "bg" /\ u.pc = "sem"

\* C6: the file only goes absent -> partial -> complete or back to absent;
\* once complete it is never removed or rewritten, the pipeline never runs
\* for it again, and every later ensure call returns nil changing nothing.
C6_Act ==
  /\ \A key \in ThumbPaths :
       /\ <<thumbs[key].st, thumbs'[key].st>> \in
            {<<"absent", "absent">>, <<"absent", "partial">>,
             <<"partial", "partial">>, <<"partial", "complete">>,
             <<"partial", "absent">>, <<"complete", "complete">>}
       /\ Complete(key) =>
            /\ thumbs'[key] = thumbs[key]
            /\ runs'[key] = runs[key]
            /\ fails'[key] = fails[key]
  /\ \A t \in Running :
       (t.pc = "lock" /\ Complete(Key(t)) /\ Stepped(t)) =>
         (ReturnsNil(t) /\ locked' = locked)

C6_PresentTerminal == [][C6_Act]_vars

\* a call that waits for the lock of an artifact that is already complete
C6_Witness ==
  \E t \in Running : t.pc = "lock" /\ Complete(Key(t)) /\ runs[Key(t)] = 1

\* C7: the step in which the pipeline fails leaves no file at the artifact
\* path and the lock free, and ends the failing call with the error (the
\* request is answered 500, not served); no partial file exists outside a
\* running generation.
C7_Inv ==
  \A key \in ThumbPaths :
    thumbs[key].st = "partial" => CountOf(InPipeline(key)) >= 1

C7_Act ==
  \A key \in ThumbPaths :
    fails'[key] > fails[key] =>
      /\ thumbs'[key].st = "absent"
      /\ \A h \in locked' : h[1] # key
      /\ BagCardinality(tasks') = BagCardinality(tasks) - 1
      /\ \A t \in Running : t.pc = "serve" => CopiesIn(t, tasks') = CopiesIn(t, tasks)
      /\ \A t \in BagToSet(tasks') : t.pc = "serve" => CopiesIn(t, tasks') = CopiesIn(t, tasks)

C7_FailureCleanup == [] C7_Inv /\ [][C7_Act]_vars

\* a generation has failed and nothing is left of it
C7_Witness ==
  \E key \in ThumbPaths :
    /\ fails[key] = 1 /\ runs[key] = 1
    /\ thumbs[key].st = "absent"
    /\ locked = {}
    /\ tasks = EmptyBag

\* C8: a call that finds the artifact absent under the lock runs the
\* pipeline, whatever failed before; a call that returned nil has the
\* artifact; the pipeline runs at most once more than it has failed.
C8_Inv ==
  /\ \A t \in Running : (t.pc = "serve" /\ t.miss) => Complete(Key(t))
  /\ \A key \in ThumbPaths : runs[key] =< fails[key] + 1

C8_Act ==
  \A t \in Running :
    (t.pc = "lock" /\ ~Exists(Key(t)) /\ Stepped(t)) =>
      tasks' = Move(t, [t EXCEPT !.pc = "gen"])

C8_NotMemoized == [] C8_Inv /\ [][C8_Act]_vars

\* after a failed attempt a later call has generated the artifact
C8_Witness ==
  \E key \in ThumbPaths :
    fails[key] >= 1 /\ Complete(key) /\ runs[key] = fails[key] + 1

\* C15: a thumbnail request reaches ServeFile only with the artifact at its
\* path (found there by the first os.Stat, or generated for the source the
\* path resolves to by a generateThumb that returned nil); it is answered
\* 404 or 500 otherwise, and never from a path that holds no file.
C15_Outcomes ==
  \A t \in Running :
    t.kind = "fg" =>
      /\ t.miss => (t.rel \in webpToSource(t.clean) /\ Key(t) = t.clean)
      /\ t.pc = "serve" => Exists(t.clean)
      /\ (t.pc = "serve" /\ t.miss) => Complete(t.clean)

\* C16: every goroutine inside generateThumb holds the handle the registry
\* keeps under its key, so all callers of one key hold the same handle; an
\* entry of the registry is never removed or replaced.
C16_Inv ==
  \A t \in Running :
    t.pc \in {"lock", "gen", "encode"} =>
      (t.mu # 0 /\ t.mu = thumbLocks[Key(t)])

C16_Act ==
  \A key \in ThumbPaths :
    thumbLocks[key] # 0 => thumbLocks'[key] = thumbLocks[key]

C16_Registry == [] C16_Inv /\ [][C16_Act]_vars

\* after a failed generation, a request and a background task are inside
\* generateThumb for the same key, one of them generating, with the handle
\* stored by the first caller
C16_Witness ==
  \E t \in Running, u \in Running :
    /\ t.kind = "bg" /\ t.pc = "encode"
    /\ u.kind = "fg" /\ u.pc = "lock" /\ Key(u) = Key(t)
    /\ t.mu = u.mu /\ thumbLocks[Key(t)] = t.mu
    /\ fails[Key(t)] = 1

\* C17: a background task gives back exactly one slot in the step in which
\* its generateThumb returns, with nil or with an error or from the
\* re-check; a request never changes the semaphore; with no background task
\* in flight all slots are free.
C17_Inv ==
  /\ Count("bg") = 0 => workerSem = 0
  /\ workerSem = CountOf(BgInside)

C17_Act ==
  \A t \in Running :
    /\ (t.kind = "bg" /\ Returns(t)) => workerSem' = workerSem - 1
    /\ (t.kind = "fg" /\ Stepped(t)) => workerSem' = workerSem

C17_SlotRelease == [] C17_Inv /\ [][C17_Act]_vars

\* nothing in flight and all slots free after a failed generation, a
\* successful one, and a second run for the artifact that had failed
C17_Witness ==
  /\ tasks = EmptyBag
  /\ workerSem = 0
  /\ TotalFails = 1
  /\ \A key \in {thumbPathFor(s) : s \in images} : Complete(key)

\* C18: a goroutine waiting for the lock of an artifact goes on as soon as
\* no goroutine holds a lock of that artifact, whatever other locks are
\* held; two goroutines generating different artifacts can each finish first.
C18_Unrelated ==
  /\ \A t \in Running :
       (t.pc = "lock" /\ \A h \in locked : h[1] # Key(t)) => ENABLED lockAcquire(t)
  /\ \A t \in Running, u \in Running :
       (t.pc = "encode" /\ u.pc = "encode" /\ Key(t) # Key(u)) =>
         /\ ENABLED (webpEncode(t) \/ ffmpegExit(t))
         /\ ENABLED (webpEncode(u) \/ ffmpegExit(u))

\* two artifacts being generated at once while a third goroutine waits for
\* the lock of one of them
C18_Witness ==
  \E t \in Running, u \in Running, v \in Running :
    /\ t.pc = "encode" /\ u.pc = "encode" /\ Key(t) # Key(u)
    /\ v.pc = "lock" /\ Key(v) = Key(t)
    /\ Cardinality(locked) = 2

\* C19: the file at an artifact path was written from the one source the
\* resolver maps the path to.
C19_OneSource ==
  \A key \in ThumbPaths :
    Exists(key) => webpToSource(key) = {thumbs[key].from}

\* C20: a background task is inside generateThumb only while it holds a
\* slot, and a goroutine waiting for a slot holds no lock; every held lock
\* has its holder in the pipeline, so a goroutine that cannot go on waits
\* for one that can; under fair scheduling every call returns (and every
\* request is answered): no goroutine is left.
C20_Inv ==
  /\ workerSem = CountOf(BgInside)
  /\ \A t \in Running : t.pc \in {"pregen", "sem"} => t.mu = 0
  /\ \A h \in locked :
       CountOf({t \in InPipeline(h[1]) : t.mu = h[2]}) = 1
  /\ \A t \in Running :
       /\ (t.pc = "lock" /\ ~ENABLED lockAcquire(t)) => InPipeline(Key(t)) # {}
       /\ (t.pc = "sem" /\ ~ENABLED semAcquire(t)) => CountOf(BgInside) = maxWorkers
       /\ t.pc \in {"pregen", "gen", "encode", "serve"} => ENABLED Step(t)

C20_DeadlockFree == [] C20_Inv /\ <>(tasks = EmptyBag)

\* all slots held, two of the holders waiting for the lock a request holds,
\* and a further background task waiting for a slot
C20_Witness ==
  \E t \in Running, u \in Running, v \in Running :
    /\ workerSem = maxWorkers
    /\ t.kind = "bg" /\ t.pc = "sem"
    /\ u.kind = "fg" /\ u.pc \in {"gen", "encode"}
    /\ v.kind = "bg" /\ v.pc = "lock" /\ Key(v) = Key(u) /\ CopiesIn(v, tasks) >= 2

(***************************************************************************)
(* Properties of the request paths.                                        *)
(***************************************************************************)
RECURSIVE Depths(_, _)
\* the depth below the root after each component of a relative path
Depths(comps, d) ==
  IF comps = <<>> THEN <<>>
  ELSE LET c == Head(comps)
           e == IF c = DotDot THEN d - 1
                ELSE IF c = <<>> \/ c = Dot THEN d ELSE d + 1
       IN  <<e>> \o Depths(Tail(comps), e)

\* the path leaves the root through a ".." component
Escapes(path) ==
  LET ds == Depths(Split(path, <<>>), 0)
  IN  \E i \in 1..Len(ds) : ds[i] < 0

\* C9: a request whose path is absolute or escapes the root is answered 400
\* and causes no filesystem operation and no goroutine.
C9_TraversalRejected ==
  (IsAbs(http.path) \/ Escapes(http.path))
    => (http.status \in {0, 400} /\ http.fs = {})

\* a thumbnail request for "./..", which escapes only once normalized,
\* answered 400
C9_Witness ==
  /\ http.handler = "thumb"
  /\ http.path = <<".", "/", ".", ".">>
  /\ http.status = 400

C11_Act ==
  (/\ http.handler = "webpToSource"
   /\ http'.handler = "webpToSource"
   /\ http'.webpRel = http.webpRel)
    => http'.srcRel = http.srcRel

C11_Deterministic == [][C11_Act]_vars

\* the files of the tree that are the thumbnail's base name followed by a
\* known extension in lower case or in upper case
Known ==
  {".jpg", ".jpeg", ".png", ".gif", ".webp", ".mp4", ".mov", ".mkv", ".webm",
   ".JPG", ".JPEG", ".PNG", ".GIF", ".WEBP", ".MP4", ".MOV", ".MKV", ".WEBM"}

KnownSources(webpRel) ==
  {f \in tree : f.dir = webpRel.dir /\ f.base = webpRel.base /\ f.ext \in Known}

\* C12: webpToSource returns an existing file with the thumbnail's base name
\* and a known extension, lower or upper case, whenever the tree holds one,
\* and the "" result otherwise.
C12_CaseProbe ==
  http.handler = "webpToSource" =>
    IF KnownSources(http.webpRel) = {}
      THEN http.srcRel = NoSource
      ELSE http.srcRel \in KnownSources(http.webpRel)

\* photo.webp resolved to photo.JPG, the only spelling in the tree, next to
\* a mixed-case spelling that is not probed
C12_Witness ==
  /\ tree = {File("", "photo", ".JPG"), File("", "photo", ".Jpg")}
  /\ http = Resolved(File("", "photo", ".webp"), File("", "photo", ".JPG"))

(***************************************************************************)
(* Properties of the listing.                                              *)
(***************************************************************************)
\* the names of the model that start with a dot
DotNames ==
  {[base |-> ".h", ext |-> ".jpg"], [base |-> "", ext |-> ".png"],
   [base |-> "", ext |-> ".git"]}

\* the names of the files of directory dir with one of the extensions
FilesNamed(dir, exts) ==
  {[base |-> f.base, ext |-> f.ext] : f \in {g \in tree : g.dir = dir /\ g.ext \in exts}}

\* C13: the response of a listing holds, of the directory's entries whose
\* name does not start with a dot, the sub-directories under Directories,
\* the files with an image extension in any case under Images, those with a
\* video extension under Videos, and nothing else; the listing starts
\* exactly one background task per name under Images or Videos, and no other.
C13_Inv ==
  http.handler = "list" =>
    /\ http.resp.Directories =
         {[base |-> f.base, ext |-> f.ext] : f \in {g \in Folders : g.dir = http.dir}}
           \ DotNames
    /\ http.resp.Images =
         FilesNamed(http.dir, {".jpg", ".Jpg", ".JPG", ".png", ".PNG"}) \ DotNames
    /\ http.resp.Videos = FilesNamed(http.dir, {".mp4", ".MP4"}) \ DotNames

C13_Act ==
  http'.handler = "list" =>
    tasks' = tasks (+) SetToBag(
      {[kind |-> "bg", pc |-> "pregen", rel |-> File(http'.dir, n.base, n.ext),
        clean |-> File(http'.dir, n.base, ".webp"), mu |-> 0, miss |-> FALSE] :
         n \in http'.resp.Images \cup http'.resp.Videos})

C13_Listing == [] C13_Inv /\ [][C13_Act]_vars

\* the root directory holding an image, a dot-prefixed image and a text
\* file next to its sub-directories, listed once: one task, for the image
C13_Witness ==
  /\ tree = {File("", "a", ".jpg"), File("", ".h", ".jpg"), File("", "n", ".txt")}
  /\ http.handler = "list" /\ http.dir = ""
  /\ http.resp.Images = {[base |-> "a", ext |-> ".jpg"]}
  /\ http.resp.Directories = {[base |-> "d", ext |-> ""], [base |-> "s", ext |-> ".png"]}
  /\ tasks = SetToBag({Task("bg", "pregen", File("", "a", ".jpg"), File("", "a", ".webp"))})

\* C14: a listing is answered in every state of the background work, with
\* all slots held and after failures too, and its response is the listing
\* of the directory, the same every time.
C14_ListingNeverWaits ==
  /\ \A dir \in Dirs :
       Count("bg") + Cardinality(thumbTargets(dir)) =< MaxBg => ENABLED listDir(dir)
  /\ http.handler = "list" =>
       /\ http.status = 200
       /\ http.dir = "" =>
            http.resp = [Directories |-> {[base |-> "d", ext |-> ""],
                                          [base |-> "s", ext |-> ".png"]},
                         Images |-> {[base |-> "a", ext |-> ".jpg"]},
                         Videos |-> {}]
       /\ http.dir = "d" =>
            http.resp = [Directories |-> {}, Images |-> {},
                         Videos |-> {[base |-> "b", ext |-> ".MP4"]}]

\* a listing answered while all slots were held and a generation had
\* failed; the task it started has not run yet
C14_Witness ==
  /\ http.handler = "list"
  /\ http.held = maxWorkers
  /\ http.failed >= 1
  /\ workerSem = maxWorkers
  /\ \E t \in Running : t.pc = "pregen"

(***************************************************************************)
(* Properties of the round trip from the listing to the thumbnail.         *)
(***************************************************************************)
\* C21: for every name the listing shown reports under images or videos the
\* path thumbUrl derives is the artifact path of thumbPathFor; when the
\* artifact is absent webpToSource returns, for that path, files of the tree
\* whose thumbPathFor is that artifact, and no thumbnail request for a
\* listed name is answered 404.
C21_RoundTrip ==
  /\ http.handler \in {"list", "thumb"} =>
       \A name \in http.resp.Images \cup http.resp.Videos :
         LET clean == thumbUrl(http.dir, name) IN
           /\ clean = thumbPathFor(File(http.dir, name.base, name.ext))
           /\ ~Exists(clean) =>
                /\ webpToSource(clean) # {}
                /\ \A srcRel \in webpToSource(clean) :
                     srcRel \in tree /\ thumbPathFor(srcRel) = clean
  /\ http.handler = "thumb" => http.status # 404

(***************************************************************************)
(* Properties of the front-end.                                            *)
(***************************************************************************)
\* C22: whenever loading is false and error is null the data shown is the
\* listing of the current path; loading is not false while a request for
\* the current path is unanswered; and the data shown changes only to the
\* listing of the current path, never to the response of a request sent for
\* an earlier path.
C22_Inv ==
  /\ (~app.loading /\ app.error = null) =>
       app.data = ListResponse(DirOf(app.path))
  /\ ~app.loading =>
       \A i \in 1..Len(app.fetches) : app.fetches[i] # app.path

C22_Act ==
  app'.data # app.data =>
    /\ IsDirectory(app'.path)
    /\ app'.data = ListResponse(DirOf(app'.path))

C22_ListingConsistent == [] C22_Inv /\ [][C22_Act]_vars

====
